---- MODULE Spec2Model ----
(***************************************************************************)
(* Model of file_management/backup_to_usb.py: the backup() run, the        *)
(* helpers it calls (iter_files, is_hidden, copy_with_dirs, log_line) and  *)
(* the KeyboardInterrupt handler of main().                                *)
(*                                                                         *)
(* A path is a sequence of segments and a segment is a sequence of         *)
(* one-character strings, so that str.startswith('.') is computed on the   *)
(* name and not assumed.  The anchor '/' of an absolute path is left out:  *)
(* it never starts with a dot.                                             *)
(*                                                                         *)
(* notify() only spawns an external program and swallows every failure of  *)
(* it (lines 22-35); it changes no state of the run and is not modelled.   *)
(* The destination and the log directory lie outside every source tree,    *)
(* and no destination path is a directory where a file is to be written.   *)
(***************************************************************************)
EXTENDS Integers, Sequences, FiniteSets, TLC

\* Largest file size and latest modification time of the filesystems explored.
MaxSize == 2
MaxMtime == 2
\* Number of times the program is run one after the other.
MaxRuns == 2

----------------------------------------------------------------------------
\* Names and paths of the filesystems explored.

Seg_data == <<"d", "a", "t", "a">>
Seg_photos == <<"p", "h", "o", "t", "o", "s">>
Seg_docs == <<"d", "o", "c", "s">>
Seg_backup == <<"b", "a", "c", "k", "u", "p">>
Seg_logs == <<"l", "o", "g", "s">>
Seg_a == <<"a">>
Seg_b_txt == <<"b", ".", "t", "x", "t">>
Seg_c == <<"c">>
Seg_env == <<".", "e", "n", "v">>
Seg_cache == <<".", "c", "a", "c", "h", "e">>
Seg_secret == <<"s", "e", "c", "r", "e", "t">>

Photos == <<Seg_data, Seg_photos>>
Docs == <<Seg_data, Seg_docs>>
Roots == {Photos, Docs}

DestRoot == <<Seg_backup>>
LogHome == <<Seg_logs>>

File_ab == <<Seg_a, Seg_b_txt>>
File_c == <<Seg_c>>
File_env == <<Seg_env>>
File_secret == <<Seg_cache, Seg_secret>>
RelFiles == {File_ab, File_c, File_env, File_secret}

\* os.walk is top-down: the files of a directory, then its subdirectories.
WalkOrder == <<File_c, File_env, File_ab, File_secret>>

\* The destination paths of both layouts: root + relative path, and
\* root + final segment of the source root + relative path.
FlatPath(rel) == DestRoot \o rel
NamespacedPath(root, rel) == DestRoot \o <<root[Len(root)]>> \o rel
DestPaths ==
    {FlatPath(p) : p \in RelFiles}
        \cup {NamespacedPath(r, p) : r \in Roots, p \in RelFiles}

\* A file entry; content names the source file whose bytes it holds
\* (<<>> for bytes that came from no source), whole is FALSE for a prefix.
Absent == [exists |-> FALSE, size |-> 0, mtime |-> 0, content |-> <<>>, whole |-> TRUE]
SrcFile(path, s, m) ==
    [exists |-> TRUE, size |-> s, mtime |-> m, content |-> path, whole |-> TRUE]
OtherFile(s, m) ==
    [exists |-> TRUE, size |-> s, mtime |-> m, content |-> <<>>, whole |-> TRUE]

----------------------------------------------------------------------------
VARIABLES
    srcExists,  \* the source roots that exist
    srcs,       \* srcs[root][rel]: the file at root/rel
    sources,    \* the parsed --sources list
    logDir,     \* parent directory of the log file
    files,      \* files[path]: the entry at a destination path
    dirs,       \* the directories that exist (destination side and log)
    log,        \* the lines of the log file
    pc,         \* position of the run
    dryRun,     \* args.dry_run of the run
    file_list,  \* backup(): file_list
    idx,        \* backup(): position of the loop over file_list (1-based)
    copied,     \* backup(): copied
    decisions,  \* what the loop saw and did for each candidate so far
    exitCode,   \* exit status of the process
    logFailed,  \* a write to the log raised in this run
    run,        \* number of runs started
    prev        \* the run before this one

vars == <<srcExists, srcs, sources, logDir, files, dirs, log, pc, dryRun,
          file_list, idx, copied, decisions, exitCode, logFailed, run, prev>>

fsSource == <<srcExists, srcs, sources, logDir>>
runLocals == <<file_list, idx, copied, decisions>>

----------------------------------------------------------------------------
\* Pure helpers.

\* is_hidden: some part of the path starts with a dot.
is_hidden(path) ==
    \E i \in 1..Len(path) : Len(path[i]) > 0 /\ path[i][1] = "."

\* Path.relative_to for a path under base.
relative_to(path, base) == SubSeq(path, Len(base) + 1, Len(path))

\* Path.parent
parent(path) == SubSeq(path, 1, Len(path) - 1)

\* The directories mkdir(parents=True, exist_ok=True) leaves in place.
mkdir_parents(dir) == {SubSeq(dir, 1, k) : k \in 1..Len(dir)}

\* stat() of a source file.
StatSrc(f, base) == srcs[base][relative_to(f, base)]

\* iter_files: the files under src_dir in walk order, skipping every
\* directory and every file with a hidden part.  A root that does not exist
\* or holds nothing yields nothing.
iter_files(src_dir) ==
    LET keep(rel) ==
            /\ srcs[src_dir][rel].exists
            /\ ~is_hidden(parent(src_dir \o rel))
            /\ ~is_hidden(src_dir \o rel)
        rels == SelectSeq(WalkOrder, keep)
    IN  [i \in 1..Len(rels) |-> src_dir \o rels[i]]

\* A variant of build_file_list that walks the sources last to first.
RECURSIVE build_file_list_reversed(_)
build_file_list_reversed(srcList) ==
    IF srcList = <<>> THEN <<>>
    ELSE LET src == Head(srcList)
             fs == iter_files(src)
         IN  build_file_list_reversed(Tail(srcList))
                 \o [i \in 1..Len(fs) |-> [f |-> fs[i], base |-> src]]

\* backup(), lines 88-91: file_list in source order, then walk order.
RECURSIVE build_file_list(_)
build_file_list(srcList) ==
    IF srcList = <<>> THEN <<>>
    ELSE LET src == Head(srcList)
             fs == iter_files(src)
         IN  [i \in 1..Len(fs) |-> [f |-> fs[i], base |-> src]]
                 \o build_file_list(Tail(srcList))

\* A variant of missing_sources that looks at the first source only.
missing_first_only(srcList) ==
    IF srcList # <<>> /\ srcList[1] \notin srcExists THEN <<srcList[1]>> ELSE <<>>

\* backup(), line 78: the sources that do not exist, in list order.
missing_sources(srcList) == SelectSeq(srcList, LAMBDA s : s \notin srcExists)

\* A variant of up_to_date that compares the destination's modification
\* time with itself instead of the source's.
up_to_date_self(f_stat, dest_stat) ==
    f_stat.size = dest_stat.size /\ dest_stat.mtime >= dest_stat.mtime

\* backup(), line 103: the test that skips a candidate.
up_to_date(f_stat, dest_stat) ==
    f_stat.size = dest_stat.size /\ dest_stat.mtime >= f_stat.mtime

\* backup(), lines 100-106: continue (TRUE) or fall through to the copy.
skips(f_stat, dest_entry, statRaises) ==
    IF dest_entry.exists
    THEN IF statRaises THEN FALSE ELSE up_to_date(f_stat, dest_entry)
    ELSE FALSE

\* copy_with_dirs: the destination side of the filesystem after the call.
\* shutil.copy2 writes the bytes and copies the modification time.
copy_with_dirs(src, base, dest_root, dry_run) ==
    LET rel == relative_to(src, base)
        dest == dest_root \o rel
        st == StatSrc(src, base)
    IN  IF dry_run
        THEN [files |-> files, dirs |-> dirs]
        ELSE [dirs |-> dirs \cup mkdir_parents(parent(dest)),
              files |-> [files EXCEPT ![dest] = SrcFile(src, st.size, st.mtime)]]

\* A variant of ensure_destination that makes the root in a dry run too.
ensure_destination_always(dry_run) == dirs \cup mkdir_parents(DestRoot)

\* backup(), lines 84-85: the directories after the destination is ensured.
ensure_destination(dry_run) ==
    IF ~dry_run THEN dirs \cup mkdir_parents(DestRoot) ELSE dirs

\* log_line: the log's parent directory is made, then the line appended.
log_line(message) ==
    [dirs |-> dirs \cup mkdir_parents(logDir), log |-> Append(log, message)]

\* log_line when open() or write() raises: the directory is already made.
log_line_raises == [dirs |-> dirs \cup mkdir_parents(logDir), log |-> log]

Line(msg, evaluated, n) == [msg |-> msg, evaluated |-> evaluated, copied |-> n]

----------------------------------------------------------------------------
\* Initial states: a filesystem and a command line.

Metas(path) == {SrcFile(path, s, m) : s \in 1..MaxSize, m \in 1..MaxMtime}

EmptyTree == [rel \in RelFiles |-> Absent]

PhotosTrees ==
    {[rel \in RelFiles |->
        CASE rel = File_ab -> ab
          [] rel = File_c -> c
          [] OTHER -> SrcFile(Photos \o rel, 1, 1)] :
        ab \in {Absent} \cup Metas(Photos \o File_ab),
        c \in {Absent, SrcFile(Photos \o File_c, 1, 1)}}

DocsTrees ==
    {[EmptyTree EXCEPT ![File_ab] = ab] :
        ab \in {Absent} \cup Metas(Docs \o File_ab)}

SourceLists == {<<Photos>>, <<Photos, Docs>>, <<Docs, Photos>>}

NoRun == [pc |-> "none", dryRun |-> FALSE, copied |-> 0,
          file_list |-> <<>>, decisions |-> <<>>]

Init ==
    /\ sources \in SourceLists
    /\ srcExists \in SUBSET Roots
    /\ srcs \in [Roots -> PhotosTrees \cup DocsTrees \cup {EmptyTree}]
    /\ srcs[Photos] \in (IF Photos \in srcExists THEN PhotosTrees ELSE {EmptyTree})
    /\ srcs[Docs] \in (IF Docs \in srcExists THEN DocsTrees ELSE {EmptyTree})
    /\ \A r \in Roots : (\A i \in 1..Len(sources) : sources[i] # r) =>
            (r \in srcExists /\ srcs[r] = EmptyTree)
    /\ logDir \in {LogHome, DestRoot}
    /\ \E d \in {Absent} \cup {OtherFile(s, m) : s \in 1..MaxSize, m \in 1..MaxMtime} :
        /\ files = [p \in DestPaths |-> IF p = FlatPath(File_ab) THEN d ELSE Absent]
        /\ dirs \in (IF d.exists
                     THEN {mkdir_parents(parent(FlatPath(File_ab)))}
                     ELSE {{}, {DestRoot}})
    /\ log = <<>>
    /\ pc = "idle"
    /\ dryRun = FALSE
    /\ file_list = <<>>
    /\ idx = 1
    /\ copied = 0
    /\ decisions = <<>>
    /\ exitCode = -1
    /\ logFailed = FALSE
    /\ run = 0
    /\ prev = NoRun

----------------------------------------------------------------------------
\* The steps of main() and backup().

InRun == {"validate", "mkdest", "enumerate", "loop"}
Ended == {"done", "aborted", "crashed", "interrupted"}

\* An exception of log_line leaves backup() and main() uncaught.
Crash(l) ==
    /\ dirs' = l.dirs
    /\ log' = l.log
    /\ pc' = "crashed"
    /\ exitCode' = 1
    /\ logFailed' = TRUE

\* main() calls backup(); lines 73-75.
Begin(dry) ==
    /\ run' = run + 1
    /\ prev' = [pc |-> IF run = 0 THEN "none" ELSE pc, dryRun |-> dryRun,
                copied |-> copied, file_list |-> file_list, decisions |-> decisions]
    /\ dryRun' = dry
    /\ file_list' = <<>>
    /\ idx' = 1
    /\ copied' = 0
    /\ decisions' = <<>>
    /\ UNCHANGED <<fsSource, files>>
    /\ \/ LET l == log_line(Line("Backup started", 0, 0))
          IN  /\ dirs' = l.dirs
              /\ log' = l.log
              /\ pc' = "validate"
              /\ exitCode' = -1
              /\ logFailed' = FALSE
       \/ Crash(log_line_raises)

Main ==
    /\ pc = "idle"
    /\ \E dry \in BOOLEAN : Begin(dry)

\* The program is run again on the filesystem the last run left.
MainAgain ==
    /\ pc \in {"done", "interrupted"}
    /\ run < MaxRuns
    /\ \E dry \in BOOLEAN : Begin(dry)

\* backup(), lines 78-82.
ValidateSources ==
    /\ pc = "validate"
    /\ UNCHANGED <<fsSource, files, dryRun, runLocals, run, prev>>
    /\ LET missing == missing_sources(sources)
       IN  IF missing # <<>>
           THEN \E n \in 0..Len(missing) :
                   LET RECURSIVE written(_)
                       written(k) == IF k = 0 THEN log
                                     ELSE Append(written(k - 1),
                                                 Line("Source not found", 0, 0))
                   IN  /\ dirs' = dirs \cup mkdir_parents(logDir)
                       /\ log' = written(n)
                       /\ IF n = Len(missing)
                          THEN /\ pc' = "aborted"
                               /\ exitCode' = 1
                               /\ UNCHANGED logFailed
                          ELSE /\ pc' = "crashed"
                               /\ exitCode' = 1
                               /\ logFailed' = TRUE
           ELSE /\ pc' = "mkdest"
                /\ UNCHANGED <<dirs, log, exitCode, logFailed>>

\* backup(), lines 84-85.
EnsureDestination ==
    /\ pc = "mkdest"
    /\ dirs' = ensure_destination(dryRun)
    /\ pc' = "enumerate"
    /\ UNCHANGED <<fsSource, files, log, dryRun, runLocals, exitCode, logFailed,
                   run, prev>>

\* backup(), lines 88-97.
Enumerate ==
    /\ pc = "enumerate"
    /\ file_list' = build_file_list(sources)
    /\ idx' = 1
    /\ copied' = 0
    /\ pc' = "loop"
    /\ UNCHANGED <<fsSource, files, dirs, log, dryRun, decisions, exitCode,
                   logFailed, run, prev>>

\* backup(), lines 98-108: one pass of the loop.  stat() of an entry that
\* exists may still raise (the entry vanishes or cannot be read).
ProcessCandidate ==
    /\ pc = "loop"
    /\ idx <= Len(file_list)
    /\ LET f == file_list[idx].f
           base == file_list[idx].base
           dest_path == DestRoot \o relative_to(f, base)
           d == files[dest_path]
       IN  \E statRaises \in (IF d.exists THEN BOOLEAN ELSE {FALSE}) :
              IF skips(StatSrc(f, base), d, statRaises)
              THEN /\ decisions' = Append(decisions,
                        [before |-> d, statRaises |-> statRaises,
                         decision |-> "Skip", bytes |-> 0])
                   /\ UNCHANGED <<files, dirs, copied>>
              ELSE LET r == copy_with_dirs(f, base, DestRoot, dryRun)
                   IN  /\ files' = r.files
                       /\ dirs' = r.dirs
                       /\ copied' = copied + 1
                       /\ decisions' = Append(decisions,
                            [before |-> d, statRaises |-> statRaises,
                             decision |-> "Copy",
                             bytes |-> IF dryRun THEN 0 ELSE StatSrc(f, base).size])
    /\ idx' = idx + 1
    /\ UNCHANGED <<fsSource, log, pc, dryRun, file_list, exitCode, logFailed,
                   run, prev>>

\* backup(), lines 110-120.
Report ==
    /\ pc = "loop"
    /\ idx > Len(file_list)
    /\ UNCHANGED <<fsSource, files, dryRun, runLocals, run, prev>>
    /\ \/ LET l == log_line(Line(IF dryRun THEN "Dry run completed"
                                           ELSE "Backup completed",
                                 Len(file_list), copied))
          IN  /\ dirs' = l.dirs
              /\ log' = l.log
              /\ pc' = "done"
              /\ exitCode' = 0
              /\ UNCHANGED logFailed
       \/ Crash(log_line_raises)

\* main(), lines 151-155, after KeyboardInterrupt left backup().
Interrupted ==
    \/ LET l == log_line(Line("Backup interrupted by user", 0, 0))
       IN  /\ dirs' = l.dirs
           /\ log' = l.log
           /\ pc' = "interrupted"
           /\ exitCode' = 130
           /\ UNCHANGED logFailed
    \/ /\ dirs' = dirs \cup mkdir_parents(logDir)
       /\ log' = log
       /\ pc' = "crashed"
       /\ exitCode' = 1
       /\ logFailed' = TRUE

\* KeyboardInterrupt between two statements of backup().
Interrupt ==
    /\ pc \in InRun
    /\ Interrupted
    /\ UNCHANGED <<fsSource, files, dryRun, runLocals, run, prev>>

\* KeyboardInterrupt inside shutil.copy2 (line 66): the parent directories
\* are made, a prefix of the bytes is written and the modification time is
\* that of the write, not yet the source's.
InterruptCopy ==
    /\ pc = "loop"
    /\ idx <= Len(file_list)
    /\ ~dryRun
    /\ LET f == file_list[idx].f
           base == file_list[idx].base
           dest_path == DestRoot \o relative_to(f, base)
           d == files[dest_path]
           st == StatSrc(f, base)
       IN  \E statRaises \in (IF d.exists THEN BOOLEAN ELSE {FALSE}) :
              /\ ~skips(st, d, statRaises)
              /\ \E n \in 0..st.size, now \in 1..MaxMtime :
                    /\ files' = [files EXCEPT ![dest_path] =
                            [exists |-> TRUE, size |-> n, mtime |-> now,
                             content |-> f, whole |-> (n = st.size)]]
                    /\ decisions' = Append(decisions,
                            [before |-> d, statRaises |-> statRaises,
                             decision |-> "Cut", bytes |-> n])
              /\ \/ LET l == log_line(Line("Backup interrupted by user", 0, 0))
                    IN  /\ dirs' = l.dirs \cup mkdir_parents(parent(dest_path))
                        /\ log' = l.log
                        /\ pc' = "interrupted"
                        /\ exitCode' = 130
                        /\ UNCHANGED logFailed
                 \/ /\ dirs' = dirs \cup mkdir_parents(logDir)
                                 \cup mkdir_parents(parent(dest_path))
                    /\ log' = log
                    /\ pc' = "crashed"
                    /\ exitCode' = 1
                    /\ logFailed' = TRUE
    /\ UNCHANGED <<fsSource, dryRun, file_list, idx, copied, run, prev>>

Steps ==
    \/ ValidateSources
    \/ EnsureDestination
    \/ Enumerate
    \/ ProcessCandidate
    \/ Report

\* One run of the program, which the user may interrupt.
Next ==
    \/ Main
    \/ Steps
    \/ Interrupt
    \/ InterruptCopy
Spec == Init /\ [][Next]_vars

\* Runs one after the other on the same filesystem.
\* started from the filesystems in which every source exists and the log is
\* kept outside the destination.  The program is run again after a run that
\* completed or was interrupted; the interruptions explored are those of the
\* first run.
InitTwice == Init /\ srcExists = Roots /\ logDir = LogHome
FirstRunInterrupt == run = 1 /\ Interrupt
FirstRunInterruptCopy == run = 1 /\ InterruptCopy
NextTwice ==
    \/ Main
    \/ MainAgain
    \/ Steps
    \/ FirstRunInterrupt
    \/ FirstRunInterruptCopy
SpecTwice == InitTwice /\ [][NextTwice]_vars

----------------------------------------------------------------------------
\* Vocabulary of the properties.

\* A regular file under a source with no dot-prefixed segment in its path.
Visible(root, rel) ==
    /\ srcs[root][rel].exists
    /\ \A i \in 1..Len(root \o rel) : (root \o rel)[i][1] # "."

InList(root) == \E i \in 1..Len(sources) : sources[i] = root

SomeMissing == \E i \in 1..Len(sources) : sources[i] \notin srcExists

\* The source file of the i-th candidate of a file list.
CandStat(list, i) == srcs[list[i].base][relative_to(list[i].f, list[i].base)]
CandDest(list, i) == DestRoot \o relative_to(list[i].f, list[i].base)

NoStatRaised(ds) == \A i \in 1..Len(ds) : ~ds[i].statRaises

\* Positions i < j of the source list whose sources both hold a visible file
\* at rel, j the last such position and i the one before it.
LastTwo(i, j, rel) ==
    /\ i \in 1..Len(sources)
    /\ j \in 1..Len(sources)
    /\ i < j
    /\ Visible(sources[i], rel)
    /\ Visible(sources[j], rel)
    /\ \A k \in 1..Len(sources) :
            (k > i /\ k # j) => ~Visible(sources[k], rel)

CompletedReal == pc = "done" /\ ~dryRun

----------------------------------------------------------------------------
\* C1 (Idempotence): when a non-dry-run backup has completed and a second
\* non-dry-run backup completes on the unchanged sources, the second run
\* copies zero files.
C1_Idempotence ==
    (/\ CompletedReal
     /\ prev.pc = "done"
     /\ ~prev.dryRun
     /\ NoStatRaised(decisions)) => copied = 0

\* C2 (Completeness): after a completed non-dry-run backup every visible
\* file of every source in the list has a destination file of its own size.
C2_Completeness ==
    CompletedReal =>
        \A r \in Roots, rel \in RelFiles :
            (InList(r) /\ Visible(r, rel)) =>
                \E d \in {FlatPath(rel), NamespacedPath(r, rel)} :
                    files[d].exists /\ files[d].size = srcs[r][rel].size

\* C3 (Dry-run count agreement): the "would copy" count of a completed dry
\* run equals the "copied" count of the real run that completes next on the
\* unchanged filesystem.
C3_DryRunCountAgrees ==
    (/\ CompletedReal
     /\ prev.pc = "done"
     /\ prev.dryRun
     /\ NoStatRaised(prev.decisions)
     /\ NoStatRaised(decisions)) => copied = prev.copied

\* C4 as stated (Dry-run purity): no step of a dry run creates or modifies
\* any filesystem entry, the log file and its directory included.
C4_DryRunTouchesNothing ==
    [][(dryRun' /\ pc' # "idle") =>
            (files' = files /\ dirs' = dirs /\ log' = log /\ srcs' = srcs)]_vars

\* C4 as amended (Dry-run purity): no step of a dry run creates or modifies
\* a filesystem entry other than the log file and the directories on the way
\* to it; the destination root is made only when it is such a directory.
C4_DryRunPureButLog ==
    [][(dryRun' /\ pc' # "idle") =>
            /\ files' = files
            /\ srcs' = srcs
            /\ srcExists' = srcExists
            /\ dirs \subseteq dirs'
            /\ (dirs' \ dirs) \subseteq mkdir_parents(logDir)
            /\ (DestRoot \in dirs' /\ DestRoot \notin dirs) => logDir = DestRoot]_vars

\* A dry run that ended with something to copy and no destination root.
C4_Witness ==
    /\ pc = "done"
    /\ dryRun
    /\ copied > 0
    /\ DestRoot \notin dirs
    /\ logDir \in dirs

\* C5 (Namespacing isolation): after a completed non-dry-run backup, two
\* sources with a visible file at the same relative path each have their
\* file under the destination subfolder named after their own root.
C5_NamespacingIsolation ==
    CompletedReal =>
        \A r1 \in Roots, r2 \in Roots, rel \in RelFiles :
            (/\ r1 # r2
             /\ InList(r1) /\ InList(r2)
             /\ Visible(r1, rel) /\ Visible(r2, rel)) =>
                /\ files[NamespacedPath(r1, rel)].content = r1 \o rel
                /\ files[NamespacedPath(r2, rel)].content = r2 \o rel

\* C6 (Freshness decision rule): a candidate is skipped exactly when an
\* entry exists at its destination path, stat raised on neither side, the
\* sizes are equal and the destination is at least as new as the source; in
\* every other case it is copied, and copied counts those cases.
C6_FreshnessRule ==
    /\ \A i \in 1..Len(decisions) :
            LET s == CandStat(file_list, i)
                d == decisions[i]
            IN  (d.decision = "Skip") <=>
                    (/\ d.before.exists
                     /\ ~d.statRaises
                     /\ d.before.size = s.size
                     /\ d.before.mtime >= s.mtime)
    /\ copied = Cardinality({i \in 1..Len(decisions) : decisions[i].decision = "Copy"})

\* One candidate copied over an entry of its size that is older, and one
\* skipped.
C6_Witness ==
    /\ \E i \in 1..Len(decisions) :
            /\ decisions[i].decision = "Copy"
            /\ decisions[i].before.exists
            /\ ~decisions[i].statRaises
            /\ decisions[i].before.size = CandStat(file_list, i).size
            /\ decisions[i].before.mtime < CandStat(file_list, i).mtime
    /\ \E j \in 1..Len(decisions) : decisions[j].decision = "Skip"

\* C7 as stated (Fail-fast on a missing source): with a source of the list
\* missing no step of the run changes any state, the log included, and the
\* run ends with a non-zero exit before enumerating.
C7_MissingSourceTouchesNothing ==
    [][SomeMissing =>
            /\ files' = files
            /\ dirs' = dirs
            /\ log' = log
            /\ file_list' = <<>>
            /\ pc' \in {"validate", "aborted", "crashed", "interrupted"}
            /\ (pc' \in Ended => exitCode' # 0)]_vars

\* C7 as amended (Fail-fast on a missing source): with a source of the list
\* missing, wherever it stands, no step of the run copies a file, enumerates
\* or decides a candidate, or makes a directory other than those on the way
\* to the log file; the run never gets past validation and ends with a
\* non-zero exit.
C7_FailFastButLog ==
    [][SomeMissing =>
            /\ files' = files
            /\ dirs \subseteq dirs'
            /\ (dirs' \ dirs) \subseteq mkdir_parents(logDir)
            /\ file_list' = <<>>
            /\ decisions' = <<>>
            /\ copied' = 0
            /\ pc' \in {"validate", "aborted", "crashed", "interrupted"}
            /\ (pc' \in Ended => exitCode' # 0)]_vars

\* A run aborted although the first source exists and holds files to copy.
C7_Witness ==
    /\ pc = "aborted"
    /\ exitCode = 1
    /\ Len(sources) = 2
    /\ sources[1] \in srcExists
    /\ sources[2] \notin srcExists
    /\ \E rel \in RelFiles : Visible(sources[1], rel)
    /\ DestRoot \notin dirs
    /\ Len(log) = 2

\* C8 (Logging failures are non-fatal): a write to the log that fails does
\* not end the run.
C8_LogFailureNonFatal == logFailed => pc \notin {"crashed"}

\* C9 as stated (Flat-merge last-writer-wins): after a completed non-dry-run
\* backup, the destination file at a relative path two sources share is the
\* copy of the file of the later source, whatever the sizes and times.
C9_LastWriterWins ==
    CompletedReal =>
        \A i \in 1..Len(sources), j \in 1..Len(sources), rel \in RelFiles :
            LastTwo(i, j, rel) =>
                files[FlatPath(rel)] =
                    SrcFile(sources[j] \o rel, srcs[sources[j]][rel].size,
                            srcs[sources[j]][rel].mtime)

\* C9 as amended (Flat-merge last-writer-wins): the destination file is the
\* copy of the file of the later source when the two files differ in size;
\* when they have the same size and the earlier one is at least as new, the
\* later file is skipped (unless stat raises) and the entry holds other bytes.
C9_LastWriterWinsOnSizeChange ==
    CompletedReal =>
        \A i \in 1..Len(sources), j \in 1..Len(sources), rel \in RelFiles :
            LastTwo(i, j, rel) =>
                LET early == srcs[sources[i]][rel]
                    late == srcs[sources[j]][rel]
                    k == CHOOSE n \in 1..Len(file_list) :
                            file_list[n].f = sources[j] \o rel
                IN  /\ early.size # late.size =>
                            files[FlatPath(rel)] =
                                SrcFile(sources[j] \o rel, late.size, late.mtime)
                    /\ (/\ early.size = late.size
                        /\ early.mtime >= late.mtime
                        /\ ~decisions[k].statRaises) =>
                            /\ decisions[k].decision = "Skip"
                            /\ files[FlatPath(rel)].content # sources[j] \o rel

\* A completed run over two sources sharing a path with different sizes,
\* the destination holding the later one's bytes.
C9_Witness ==
    /\ CompletedReal
    /\ \E i \in 1..Len(sources), j \in 1..Len(sources), rel \in RelFiles :
            /\ LastTwo(i, j, rel)
            /\ srcs[sources[i]][rel].size # srcs[sources[j]][rel].size
            /\ files[FlatPath(rel)].content = sources[j] \o rel

\* C10 (Self-healing after an interrupted copy): when a non-dry-run backup
\* was interrupted while copying a file, leaving fewer bytes than the source
\* has, the next completed non-dry-run backup decides Copy for that file and
\* leaves it with the size of the source, and it decides Skip for the files
\* the interrupted run had copied in full.
C10_SelfHealing ==
    (/\ CompletedReal
     /\ NoStatRaised(decisions)
     /\ prev.pc = "interrupted"
     /\ ~prev.dryRun
     /\ prev.decisions # <<>>
     /\ prev.decisions[Len(prev.decisions)].decision = "Cut"
     /\ prev.decisions[Len(prev.decisions)].bytes
            < CandStat(prev.file_list, Len(prev.decisions)).size) =>
        LET k == Len(prev.decisions)
        IN  /\ decisions[k].decision = "Copy"
            /\ files[CandDest(file_list, k)].size = CandStat(file_list, k).size
            /\ \A j \in 1..(k - 1) :
                    prev.decisions[j].decision = "Copy" =>
                        decisions[j].decision = "Skip"

============================================================================
